---------------------------- MODULE Spec2Model ----------------------------
(***************************************************************************)
(* A model of io_mesh_bsp/bsp_importer.py, the Quake BSP importer.         *)
(*                                                                         *)
(* import_bsp is one long sequential function.  It is modelled in the      *)
(* phases it runs through, each phase a specification of its own over its  *)
(* own group of variables (the other groups stay idle):                    *)
(*   SpecHeader  header parsing, record counts, lump reads, layout choice  *)
(*               (import_bsp, lines 496-558)                               *)
(*   SpecTex     load_textures (lines 195-295)                             *)
(*   SpecGeom    the model / face loop of import_bsp (lines 560-666)       *)
(*   SpecEnt     get_entity_data (lines 300-333)                           *)
(* Byte strings are sequences of byte values, text lines are sequences of  *)
(* characters.                                                             *)
(***************************************************************************)
EXTENDS Integers, Sequences, FiniteSets, TLC

(***************************************************************************)
(* Bounds of the model.                                                    *)
(***************************************************************************)
\* record counts 0..MaxRecs are tried for every lump of the header
MaxRecs == 1
\* the vertex pool of the file holds vertices 0..NumVerts-1
NumVerts == 4
\* a file holds 1..MaxModels models
MaxModels == 2
\* a model holds 0..MaxFaceNum faces
MaxFaceNum == 2
\* a face's edge-list range holds 0..MaxLedgeNum signed edge indices
MaxLedgeNum == 3
\* the miptex directory of a file holds 0..MaxMiptex entries
MaxMiptex == 2
\* the textures of a file are 1..MaxDim pixels wide and high
MaxDim == 2
\* the number of lines of an entity text
MaxLines == 4
\* the number of entities get_entity_data returns
MaxEntities == 3

(***************************************************************************)
(* Program constants.                                                      *)
(***************************************************************************)
\* magic number of 'BSP2' (line 505)
BSP2_MAGIC == 844124994
\* struct.calcsize of the record formats
size_BSPModel == 64
size_BSPVertex == 12
size_BSPFace == 20
size_BSP2Face == 28
size_BSPEdge == 4
size_BSP2Edge == 8
\* the width of the '<%di' / '<%df' items the edge list and the vertex list
\* are unpacked as (lines 532, 535)
size_Item == 4
\* struct.calcsize(fmt_BSPHeader), '<31I' (line 50)
size_BSPHeader == 124
\* the length of the name field of a miptex header, '<16s6I' (line 93)
NameLen == 16
\* start of fullbright colors in palette (line 125)
fullbright_index == 224
\* transparent color (line 126)
transparent_index == 255

VARIABLES
    \* ---- header phase of import_bsp
    hpc,            \* "start", "counted", "loaded", "structs", "failed"
    herror,         \* the exception that ended the import, or "none"
    version, models_size, verts_size, faces_size, edges_size, ledges_size,
    bsp2, num_models, num_verts, num_faces, num_edges,
    face_size, edge_size,
    \* ---- model / face loop of import_bsp
    gpc,            \* "models", "faces", "polygon", "done", "failed"
    remove_hidden, worldspawn_only,     \* options
    edges,          \* the edge lump: a sequence of <<vertex0, vertex1>>
    m, face_num, f, \* the model index, its face count, the face index
    usedVerts,      \* usedVerts[v], for every vertex of the pool
    bmVerts,        \* the vertices of the model's bmesh
    bmFaces,        \* the polygons of the model's bmesh, in creation order
    duplicateFaces,
    face,           \* the face record of the current pass of the face loop
    face_vertices,  \* the vertex loop resolved for it
    added_objects,  \* one entry per mesh object created
    scene_meshes,   \* the mesh objects the scene holds when the import ends
    \* ---- load_textures
    tpc,            \* "loop", "done", "failed"
    terror,         \* the exception that ended load_textures, or "none"
    load_miptex,    \* the parameter of load_textures
    num_miptex, miptex_id,
    tex_width, tex_height,  \* the dimensions the miptex headers of the file give
    hot,            \* the palette index of the file's highlighted pixels
    miptex,         \* the directory entry of the current pass of the loop
    name_bound,     \* whether the local miptex_name has been assigned
    miptex_name,
    texture_data,
    \* ---- get_entity_data
    epc,            \* position in get_entity_data
    lines,          \* the entity text, split into lines
    num_lines,
    i_line,         \* the local i, the index of the current line
    entity,         \* the dict of the record being read, as (key, value) pairs
    entities,
    \* ---- the run of import_bsp as a whole
    ipc,            \* position in import_bsp
    ierror,
    file_len,       \* the length of the file in bytes
    handles,        \* the functions that hold the file open
    opens,          \* how many times the file has been opened
    lumps_read,     \* whether a lump has been read
    images,         \* the images created so far
    materials,      \* the materials created so far
    meshes,         \* the mesh objects created so far
    options,
    entity_list,    \* the local entities of import_bsp (line 693): classnames
    entity_id,      \* the position of the loop of line 696
    added_lights,
    added_ents,     \* the second added_objects of import_bsp (line 694)
    scene_camera    \* bpy.context.scene.camera: 0, or the entity it was made for

hvars == <<hpc, herror, version, models_size, verts_size, faces_size,
           edges_size, ledges_size, bsp2, num_models, num_verts, num_faces,
           num_edges, face_size, edge_size>>

gvars == <<gpc, remove_hidden, worldspawn_only, edges, m, face_num, f,
           usedVerts, bmVerts, bmFaces, duplicateFaces, face, face_vertices,
           added_objects, scene_meshes>>

tvars == <<tpc, terror, load_miptex, num_miptex, miptex_id, tex_width,
           tex_height, hot, miptex, name_bound, miptex_name, texture_data>>

evars == <<epc, lines, num_lines, i_line, entity, entities>>

ivars == <<ipc, ierror, file_len, handles, opens, lumps_read, images,
           materials, meshes, options, entity_list, entity_id, added_lights,
           added_ents, scene_camera>>

vars == <<hvars, gvars, tvars, evars, ivars>>

(***************************************************************************)
(* Header phase: import_bsp, lines 496-558.                                *)
(***************************************************************************)

\* int(a / b) for a >= 0, b > 0: the quotient rounded towards zero
IntDiv(a, b) == a \div b

\* the version values tried: Quake 29, Half-Life 30, BSP2, and its neighbour
Versions == {29, 30, BSP2_MAGIC, BSP2_MAGIC + 1}

\* bytes left over after the last whole record: none, one byte, one 4-byte item
Remainders == {0, 1, 4}

\* the lump sizes tried for a lump of records of rec bytes
LumpSizes(rec) == {k * rec + r : k \in 0..MaxRecs, r \in Remainders}

\* a mutant of IsBSP2: an ordering test instead of the equality
IsBSP2_ge(v) == v >= BSP2_MAGIC

\* line 505: bsp2 = (header.version == 844124994)
IsBSP2(v) == v = BSP2_MAGIC

\* lines 509-514 and 545-554: the record sizes the flag selects
FaceSize(b) == IF b THEN size_BSP2Face ELSE size_BSPFace
EdgeSize(b) == IF b THEN size_BSP2Edge ELSE size_BSPEdge

\* struct.unpack('<%dX' % int(size/4), file.read(size)) raises struct.error
\* unless the buffer is exactly int(size/4) items long
UnpackItemsOk(size) == IntDiv(size, size_Item) * size_Item = size

HIdle ==
    /\ hpc = "idle" /\ herror = "none"
    /\ version = 0 /\ models_size = 0 /\ verts_size = 0 /\ faces_size = 0
    /\ edges_size = 0 /\ ledges_size = 0
    /\ bsp2 = FALSE /\ num_models = 0 /\ num_verts = 0 /\ num_faces = 0
    /\ num_edges = 0 /\ face_size = 0 /\ edge_size = 0

\* the header fields as read from the file (lines 499-500)
HInit ==
    /\ hpc = "start" /\ herror = "none"
    /\ version \in Versions
    /\ models_size \in LumpSizes(size_BSPModel)
    /\ verts_size \in LumpSizes(size_BSPVertex)
    /\ faces_size \in LumpSizes(size_BSPFace) \cup LumpSizes(size_BSP2Face)
    /\ edges_size \in LumpSizes(size_BSPEdge) \cup LumpSizes(size_BSP2Edge)
    /\ ledges_size \in LumpSizes(size_Item)
    /\ bsp2 = FALSE /\ num_models = 0 /\ num_verts = 0 /\ num_faces = 0
    /\ num_edges = 0 /\ face_size = 0 /\ edge_size = 0

\* lines 505-514: the format flag and the record counts
CountRecords ==
    /\ hpc = "start"
    /\ bsp2' = IsBSP2(version)
    /\ num_models' = IntDiv(models_size, size_BSPModel)
    /\ num_verts' = IntDiv(verts_size, size_BSPVertex)
    /\ num_faces' = IntDiv(faces_size, FaceSize(bsp2'))
    /\ num_edges' = IntDiv(edges_size, EdgeSize(bsp2'))
    /\ hpc' = "counted"
    /\ UNCHANGED <<herror, version, models_size, verts_size, faces_size,
                   edges_size, ledges_size, face_size, edge_size>>

\* lines 521-535: the lumps are read; the edge list and the vertex list are
\* unpacked as 4-byte items
ReadLumps ==
    /\ hpc = "counted"
    /\ UnpackItemsOk(ledges_size) /\ UnpackItemsOk(verts_size)
    /\ hpc' = "loaded"
    /\ UNCHANGED <<herror, version, models_size, verts_size, faces_size,
                   edges_size, ledges_size, bsp2, num_models, num_verts,
                   num_faces, num_edges, face_size, edge_size>>

\* lines 532, 535: struct.unpack raises and import_bsp ends
ReadLumpsFail ==
    /\ hpc = "counted"
    /\ ~(UnpackItemsOk(ledges_size) /\ UnpackItemsOk(verts_size))
    /\ hpc' = "failed"
    /\ herror' = "struct.error"
    /\ UNCHANGED <<version, models_size, verts_size, faces_size,
                   edges_size, ledges_size, bsp2, num_models, num_verts,
                   num_faces, num_edges, face_size, edge_size>>

\* lines 545-554: the structs the model loop unpacks with
SelectStructs ==
    /\ hpc = "loaded"
    /\ face_size' = FaceSize(bsp2)
    /\ edge_size' = EdgeSize(bsp2)
    /\ hpc' = "structs"
    /\ UNCHANGED <<herror, version, models_size, verts_size, faces_size,
                   edges_size, ledges_size, bsp2, num_models, num_verts,
                   num_faces, num_edges>>

NextHeader ==
    \/ CountRecords /\ UNCHANGED <<gvars, tvars, evars, ivars>>
    \/ ReadLumps /\ UNCHANGED <<gvars, tvars, evars, ivars>>
    \/ ReadLumpsFail /\ UNCHANGED <<gvars, tvars, evars, ivars>>
    \/ SelectStructs /\ UNCHANGED <<gvars, tvars, evars, ivars>>

GIdle ==
    /\ gpc = "idle" /\ remove_hidden = FALSE /\ worldspawn_only = FALSE
    /\ edges = <<>> /\ m = 0 /\ face_num = 0 /\ f = 0
    /\ usedVerts = <<>> /\ bmVerts = {} /\ bmFaces = <<>>
    /\ duplicateFaces = 0 /\ face = [kind |-> "none"] /\ face_vertices = <<>>
    /\ added_objects = <<>> /\ scene_meshes = {}

TIdle ==
    /\ tpc = "idle" /\ terror = "none" /\ load_miptex = FALSE
    /\ num_miptex = 0 /\ miptex_id = 0 /\ tex_width = 0 /\ tex_height = 0
    /\ hot = 0 /\ miptex = [kind |-> "none"]
    /\ name_bound = FALSE /\ miptex_name = <<>> /\ texture_data = <<>>

EIdle ==
    /\ epc = "idle" /\ lines = <<>> /\ num_lines = 0 /\ i_line = 0
    /\ entity = {} /\ entities = <<>>

NoOptions ==
    [create_materials |-> FALSE, create_lights |-> FALSE,
     create_cameras |-> FALSE, create_entities |-> FALSE,
     all_entities |-> FALSE]

IIdle ==
    /\ ipc = "idle" /\ ierror = "none" /\ file_len = 0 /\ handles = {}
    /\ opens = 0 /\ lumps_read = FALSE /\ images = 0 /\ materials = 0
    /\ meshes = 0 /\ options = NoOptions /\ entity_list = <<>>
    /\ entity_id = 0 /\ added_lights = <<>> /\ added_ents = <<>>
    /\ scene_camera = 0

InitHeader == HInit /\ GIdle /\ TIdle /\ EIdle /\ IIdle

SpecHeader == InitHeader /\ [][NextHeader]_vars

(***************************************************************************)
(* Claims about the header phase.                                          *)
(***************************************************************************)

\* the record size of each counted lump for the version in the header
RecordSizeFaces == IF version = BSP2_MAGIC THEN size_BSP2Face ELSE size_BSPFace
RecordSizeEdges == IF version = BSP2_MAGIC THEN size_BSP2Edge ELSE size_BSPEdge

InconsistentLump ==
    \/ models_size % size_BSPModel # 0
    \/ verts_size % size_BSPVertex # 0
    \/ faces_size % RecordSizeFaces # 0
    \/ edges_size % RecordSizeEdges # 0
    \/ ledges_size % size_Item # 0

\* C1: a header with a lump whose size is not an exact multiple of its record
\* size makes the import fail (whatever the exception is called); the import
\* never goes on with record counts rounded down from such a lump.
C1_InconsistentLumpFails ==
    hpc \in {"loaded", "structs"} => ~InconsistentLump

\* C2: the extended layouts are selected exactly when the version equals
\* 844124994, the classic layouts for every other value; the record counts
\* and the structs follow the version field alone.
C2_VariantByVersion ==
    /\ hpc # "start" =>
        /\ bsp2 = (version = BSP2_MAGIC)
        /\ num_faces = faces_size \div RecordSizeFaces
        /\ num_edges = edges_size \div RecordSizeEdges
    /\ hpc = "structs" =>
        /\ face_size = RecordSizeFaces
        /\ edge_size = RecordSizeEdges

\* an unknown version next to the magic number, decoded with the classic
\* layouts, and the magic number itself with the extended ones
C2_Witness ==
    /\ hpc = "structs"
    /\ version = BSP2_MAGIC + 1
    /\ face_size = size_BSPFace /\ edge_size = size_BSPEdge
    /\ faces_size = size_BSPFace /\ num_faces = 1

(***************************************************************************)
(* Texture names: byte strings, as sequences of ASCII codes.               *)
(***************************************************************************)
n_clip == <<99, 108, 105, 112>>
n_trigger == <<116, 114, 105, 103, 103, 101, 114>>
n_hint == <<104, 105, 110, 116>>
n_skip == <<115, 107, 105, 112>>
n_waterskip == <<119, 97, 116, 101, 114>> \o n_skip
n_lavaskip == <<108, 97, 118, 97>> \o n_skip
n_slimeskip == <<115, 108, 105, 109, 101>> \o n_skip
n_hintskip == n_hint \o n_skip
n_wall == <<119, 97, 108, 108>>

\* lines 96-105: surfaces with these textures will be ignored
ignored_texnames ==
    {n_clip, n_trigger, n_hint, n_skip, n_waterskip, n_lavaskip, n_slimeskip,
     n_hintskip}

(***************************************************************************)
(* The model / face loop of import_bsp, lines 560-682.                     *)
(*                                                                         *)
(* The records a pass of a loop reads from the file (a model's face count, *)
(* a face's edge-list range and texture) are drawn when the pass reads     *)
(* them; the edge lump, which every face reads, is drawn once.  Vertex     *)
(* positions, UV coordinates and the per-mesh material list are left out:  *)
(* a polygon carries its vertex loop and its texture name.  The edge lumps *)
(* tried refer to vertices of the pool only.                               *)
(***************************************************************************)
Verts == 0..(NumVerts - 1)

\* the edge lumps tried: two records each
EdgeTables ==
    { << <<0, 1>>, <<1, 2>> >>,
      << <<0, 1>>, <<2, 3>> >> }

\* the signed edge indices tried; the outermost two are past the edge lump
EdgeIndices == -2..2

\* the edge-list ranges tried
LedgeRanges == UNION {[1..n -> EdgeIndices] : n \in 0..MaxLedgeNum}

\* the texture names the faces' texinfo records lead to
FaceTexNames == {n_wall, n_clip}

Range(q) == {q[i] : i \in 1..Len(q)}

Reverse(q) == [i \in 1..Len(q) |-> q[Len(q) + 1 - i]]

\* lines 612-616: the record a signed edge index reads (edge_ofs / edge_size)
EdgeRecord(e) == IF e < 0 THEN -e ELSE e

\* a mutant of VertId: the first endpoint, whatever the sign
VertId_first(e) == 0

\* lines 613-617: the endpoint a signed edge index selects
VertId(e) == IF e < 0 THEN 1 ELSE 0

\* line 619: unpack_from raises struct.error on a slice past the edge lump
EdgeReadable(e) == EdgeRecord(e) < Len(edges)

\* lines 619-620: vofs = edge[vert_id]
ResolveEdge(e) == edges[EdgeRecord(e) + 1][VertId(e) + 1]

\* lines 609-621: face_vertices, in edge-list order
FaceVertices(ledges) == [i \in 1..Len(ledges) |-> ResolveEdge(ledges[i])]

\* a mutant of SkipFace: the remove_hidden option is not consulted
SkipFace_always(name) == name \in ignored_texnames

\* line 599: skip faces that use ignored textures
SkipFace(name) == remove_hidden /\ name \in ignored_texnames

\* a mutant of FaceNewOk: bm.faces.new never raises
FaceNewOk_any(loop, faces) == TRUE

\* bm.faces.new (BMesh, called at line 637) raises for fewer than three
\* vertices, for a vertex used twice, and for a face that already exists on
\* the same vertices
FaceNewOk(loop, faces) ==
    /\ Len(loop) >= 3
    /\ Cardinality(Range(loop)) = Len(loop)
    /\ \A i \in 1..Len(faces) : Range(faces[i].verts) # Range(loop)

\* lines 562-565
end_model == IF worldspawn_only THEN 1 ELSE num_models

\* the header phase has ended with a classic file of NumVerts vertices
GInit ==
    /\ hpc = "structs" /\ herror = "none" /\ version = 29
    /\ num_models \in 1..MaxModels
    /\ models_size = num_models * size_BSPModel
    /\ num_verts = NumVerts /\ verts_size = NumVerts * size_BSPVertex
    /\ num_faces = MaxModels * MaxFaceNum
    /\ faces_size = num_faces * size_BSPFace
    /\ edges \in EdgeTables
    /\ num_edges = Len(edges) /\ edges_size = num_edges * size_BSPEdge
    /\ ledges_size = num_faces * MaxLedgeNum * size_Item
    /\ bsp2 = FALSE /\ face_size = size_BSPFace /\ edge_size = size_BSPEdge
    /\ gpc = "models"
    /\ remove_hidden \in BOOLEAN /\ worldspawn_only \in BOOLEAN
    /\ m = 0 /\ face_num = 0 /\ f = 0
    /\ usedVerts = [v \in Verts |-> FALSE]
    /\ bmVerts = {} /\ bmFaces = <<>> /\ duplicateFaces = 0
    /\ face = [kind |-> "none"] /\ face_vertices = <<>>
    /\ added_objects = <<>> /\ scene_meshes = {}

\* lines 570-590: a new mesh object with every vertex of the pool
StartModel ==
    /\ gpc = "models" /\ m < end_model
    /\ \E n \in 0..MaxFaceNum : face_num' = n
    /\ f' = 0
    /\ usedVerts' = [v \in Verts |-> FALSE]
    /\ bmVerts' = Verts
    /\ bmFaces' = <<>>
    /\ duplicateFaces' = 0
    /\ face' = [kind |-> "none"]
    /\ face_vertices' = <<>>
    /\ gpc' = "faces"
    /\ UNCHANGED <<remove_hidden, worldspawn_only, edges, m, added_objects,
                   scene_meshes>>

\* lines 591-600: a face whose texture is ignored is skipped
SkipIgnoredFace ==
    /\ gpc = "faces" /\ f < face_num
    /\ \E name \in FaceTexNames :
        /\ SkipFace(name)
        /\ face' = [kind |-> "skipped", tex |-> name]
    /\ f' = f + 1
    /\ UNCHANGED <<gpc, remove_hidden, worldspawn_only, edges, m, face_num,
                   usedVerts, bmVerts, bmFaces, duplicateFaces, face_vertices,
                   added_objects, scene_meshes>>

\* lines 591-622: the face's vertex loop is resolved from its edge-list range
\* and its vertices are marked used
ResolveFace ==
    /\ gpc = "faces" /\ f < face_num
    /\ \E name \in FaceTexNames, ledges \in LedgeRanges :
        /\ ~SkipFace(name)
        /\ \A i \in 1..Len(ledges) : EdgeReadable(ledges[i])
        /\ face' = [kind |-> "read", tex |-> name, ledges |-> ledges]
        /\ face_vertices' = FaceVertices(ledges)
    /\ usedVerts' = [v \in Verts |-> usedVerts[v] \/ v \in Range(face_vertices')]
    /\ gpc' = "polygon"
    /\ UNCHANGED <<remove_hidden, worldspawn_only, edges, m, face_num, f,
                   bmVerts, bmFaces, duplicateFaces, added_objects,
                   scene_meshes>>

\* line 619: an edge index past the edge lump ends the import (struct.error)
ResolveFaceFail ==
    /\ gpc = "faces" /\ f < face_num
    /\ (\E name \in FaceTexNames, ledges \in LedgeRanges :
            /\ ~SkipFace(name)
            /\ \E i \in 1..Len(ledges) : ~EdgeReadable(ledges[i])) = TRUE
    /\ gpc' = "failed"
    /\ UNCHANGED <<remove_hidden, worldspawn_only, edges, m, face_num, f,
                   usedVerts, bmVerts, bmFaces, duplicateFaces, face,
                   face_vertices, added_objects, scene_meshes>>

\* lines 633-656: the polygon is created from the reversed loop, or the face
\* is counted as a duplicate
CreatePolygon ==
    /\ gpc = "polygon"
    /\ LET loop == Reverse(face_vertices)
           ok == FaceNewOk(loop, bmFaces)
       IN  /\ bmFaces' = IF ok
                         THEN Append(bmFaces, [verts |-> loop, tex |-> face.tex])
                         ELSE bmFaces
           /\ duplicateFaces' = IF ok THEN duplicateFaces
                                ELSE duplicateFaces + 1
           /\ face' = [kind |-> IF ok THEN "built" ELSE "failed",
                       tex |-> face.tex]
    /\ face_vertices' = <<>>
    /\ f' = f + 1
    /\ gpc' = "faces"
    /\ UNCHANGED <<remove_hidden, worldspawn_only, edges, m, face_num,
                   usedVerts, bmVerts, added_objects, scene_meshes>>

\* bm.verts.remove (BMesh) removes the vertex and the faces that use it
RemoveVerts(faces, kept) ==
    SelectSeq(faces, LAMBDA p : Range(p.verts) \subseteq kept)

\* lines 658-666: the unused vertices are removed and the mesh is updated
PruneModel ==
    /\ gpc = "faces" /\ f = face_num
    /\ bmVerts' = {v \in Verts : usedVerts[v]}
    /\ bmFaces' = RemoveVerts(bmFaces, bmVerts')
    /\ added_objects' = Append(added_objects,
                               [model |-> m, polygons |-> Len(bmFaces')])
    /\ m' = m + 1
    /\ face' = [kind |-> "none"]
    /\ gpc' = "models"
    /\ UNCHANGED <<remove_hidden, worldspawn_only, edges, face_num, f,
                   usedVerts, duplicateFaces, face_vertices, scene_meshes>>

\* a mutant of DeleteEmptyMeshes: no mesh object is deleted
DeleteEmptyMeshes_none ==
    /\ gpc = "models" /\ m >= end_model
    /\ scene_meshes' = {added_objects[i].model : i \in 1..Len(added_objects)}
    /\ gpc' = "done"
    /\ UNCHANGED <<remove_hidden, worldspawn_only, edges, m, face_num, f,
                   usedVerts, bmVerts, bmFaces, duplicateFaces, face,
                   face_vertices, added_objects>>

\* lines 668-682: the mesh objects with no faces are deleted
DeleteEmptyMeshes ==
    /\ gpc = "models" /\ m >= end_model
    /\ scene_meshes' = {added_objects[i].model : i \in
                          {j \in 1..Len(added_objects) :
                              added_objects[j].polygons # 0}}
    /\ gpc' = "done"
    /\ UNCHANGED <<remove_hidden, worldspawn_only, edges, m, face_num, f,
                   usedVerts, bmVerts, bmFaces, duplicateFaces, face,
                   face_vertices, added_objects>>

NextGeom ==
    \/ StartModel /\ UNCHANGED <<hvars, tvars, evars, ivars>>
    \/ SkipIgnoredFace /\ UNCHANGED <<hvars, tvars, evars, ivars>>
    \/ ResolveFace /\ UNCHANGED <<hvars, tvars, evars, ivars>>
    \/ ResolveFaceFail /\ UNCHANGED <<hvars, tvars, evars, ivars>>
    \/ CreatePolygon /\ UNCHANGED <<hvars, tvars, evars, ivars>>
    \/ PruneModel /\ UNCHANGED <<hvars, tvars, evars, ivars>>
    \/ DeleteEmptyMeshes /\ UNCHANGED <<hvars, tvars, evars, ivars>>

InitGeom == GInit /\ TIdle /\ EIdle /\ IIdle

SpecGeom == InitGeom /\ [][NextGeom]_vars

(***************************************************************************)
(* Claims about the model / face loop.                                     *)
(***************************************************************************)

\* C3: for every signed edge index e of a face's edge-list range, the vertex
\* added to the face loop is vertex0 of edge record e when e is not negative
\* and vertex1 of edge record |e| when e is negative.
C3_EdgeWinding ==
    gpc = "polygon" =>
        /\ Len(face_vertices) = Len(face.ledges)
        /\ \A i \in 1..Len(face.ledges) :
            LET e == face.ledges[i]
                vertex == IF e >= 0 THEN edges[e + 1][1] ELSE edges[(-e) + 1][2]
            IN  face_vertices[i] = vertex /\ usedVerts[vertex]

\* a loop was resolved from a range with a negative edge index whose record
\* has two different endpoints, and the second endpoint is in the loop
C3_Witness ==
    /\ gpc = "polygon"
    /\ \E i \in 1..Len(face.ledges) :
        LET e == face.ledges[i]
        IN  /\ e < 0
            /\ edges[(-e) + 1][1] # edges[(-e) + 1][2]
            /\ face_vertices[i] = edges[(-e) + 1][2]

\* the vertices the polygons of a mesh refer to
PolygonVerts(faces) == UNION {Range(faces[i].verts) : i \in 1..Len(faces)}

\* C4: after a model is processed, the vertices left in its mesh are exactly
\* the vertices of the pool that a constructed polygon of the model refers
\* to.
C4_PrunedToPolygonVerts ==
    (gpc = "models" /\ m > 0) => bmVerts = PolygonVerts(bmFaces)

\* C5: a face whose texture name is in the ignore-list adds no polygon and
\* marks no vertex when remove_hidden is set; when it is not set, the face
\* goes the way of every face: its loop is resolved, its vertices are marked
\* used, and its polygon is created with its texture or counted as a
\* duplicate.
C5_IgnoredFaces ==
    [][/\ (gpc = "faces" /\ (f' = f + 1 \/ gpc' = "polygon")
                /\ face'.tex \in ignored_texnames) =>
            IF remove_hidden
            THEN /\ face'.kind = "skipped"
                 /\ gpc' = "faces" /\ f' = f + 1
                 /\ bmFaces' = bmFaces
                 /\ usedVerts' = usedVerts
                 /\ duplicateFaces' = duplicateFaces
            ELSE /\ face'.kind = "read"
                 /\ gpc' = "polygon"
                 /\ \A v \in Verts :
                        usedVerts'[v] = (usedVerts[v] \/ v \in Range(face_vertices'))
       /\ (gpc = "polygon" /\ face.tex \in ignored_texnames) =>
            /\ ~remove_hidden
            /\ f' = f + 1
            /\ \/ /\ face'.kind = "built"
                  /\ bmFaces' = Append(bmFaces, [verts |-> Reverse(face_vertices),
                                                 tex |-> face.tex])
                  /\ duplicateFaces' = duplicateFaces
               \/ /\ face'.kind = "failed"
                  /\ bmFaces' = bmFaces
                  /\ duplicateFaces' = duplicateFaces + 1
      ]_vars

\* with remove_hidden set, a "clip" face was skipped after a polygon was built
C5_Witness ==
    /\ gpc = "faces" /\ remove_hidden
    /\ face.kind = "skipped" /\ face.tex = n_clip
    /\ Len(bmFaces) = 1

(***************************************************************************)
(* load_textures, lines 195-295.                                           *)
(*                                                                         *)
(* A pass of the loop reads one directory entry: its 16-byte name field,   *)
(* and its base-mip pixels, which the file may not hold in full.  All the  *)
(* textures of a file have the same dimensions here, and their pixels are  *)
(* palette index 0 except the highlighted ones, which are the file's hot   *)
(* index.  The miptex headers themselves are readable and the names are    *)
(* ASCII.  An image pixel is the palette index it was coloured from and    *)
(* its alpha; a mask pixel is 1 (foreground) or 0.                         *)
(***************************************************************************)
n_lava == <<42, 108, 97, 118, 97>>
n_sky1 == <<115, 107, 121, 49>>
n_fence == <<123, 102>>

\* lines 121-123: special texture attributes
transparent_prefix == <<123>>
liquid_prefix == <<42>>
sky_prefix == <<115, 107, 121>>

\* a name field: the name, padded with NUL bytes to NameLen bytes
Padded(name) == name \o [i \in 1..(NameLen - Len(name)) |-> 0]

\* the name fields tried: padded names, a name followed by a NUL and then by
\* other bytes, and a field of NameLen bytes with no NUL
NameFields ==
    { Padded(n_wall), Padded(n_clip), Padded(n_lava), Padded(n_sky1),
      Padded(n_fence),
      Padded(n_clip \o <<0, 120>>),
      [i \in 1..NameLen |-> 97] }

\* which pixels of a texture are highlighted
Patterns == {"none", "first", "all"}

\* the palette indices a highlighted pixel may have: the last ordinary
\* colour, the first fullbright colour, the transparent colour
HotIndices == {fullbright_index - 1, fullbright_index, transparent_index}

\* the base-mip pixels of a texture, in file order (index idx is at idx + 1)
PixelsPal(pattern, n, h) ==
    [i \in 1..n |-> IF pattern = "all" \/ (pattern = "first" /\ i = 1)
                    THEN h ELSE 0]

\* str.startswith
StartsWith(str, prefix) ==
    /\ Len(str) >= Len(prefix)
    /\ SubSeq(str, 1, Len(prefix)) = prefix

\* lines 223-226: the position of the first NUL byte of the field, 0 if none
FirstNul(field) ==
    IF \E i \in 1..Len(field) : field[i] = 0
    THEN CHOOSE i \in 1..Len(field) :
            field[i] = 0 /\ \A j \in 1..(i - 1) : field[j] # 0
    ELSE 0

\* lines 223-226: the local miptex_name after the for loop; the loop assigns
\* it only when it meets a NUL byte
NameAfterLoop(field, bound, prev) ==
    IF FirstNul(field) = 0
    THEN [bound |-> bound, name |-> prev]
    ELSE [bound |-> TRUE, name |-> SubSeq(field, 1, FirstNul(field) - 1)]

\* a mutant of IsEmissiveName: the sky prefix is not tested
IsEmissiveName_liquid(name) == StartsWith(name, liquid_prefix)

\* line 252
IsEmissiveName(name) ==
    StartsWith(name, liquid_prefix) \/ StartsWith(name, sky_prefix)

\* line 251
IsTransparentName(name) == StartsWith(name, transparent_prefix)

\* line 253
CreateMask(name) == ~IsEmissiveName(name) /\ name \notin ignored_texnames

\* lines 255-258: the file indices of the pixels in the order the loops visit
\* them, bottom row first
VisitOrder(w, h) ==
    [k \in 1..(w * h) |-> w * ((h - 1) - ((k - 1) \div w)) + ((k - 1) % w)]

\* lines 262-270: whether the pixel of palette index c is recorded as fullbright
IsFullbright(name, c) ==
    /\ CreateMask(name)
    /\ IF IsTransparentName(name)
       THEN c # transparent_index /\ c >= fullbright_index
       ELSE c >= fullbright_index

\* lines 262-266: the alpha of the pixel of palette index c
Alpha(name, c) ==
    IF CreateMask(name) /\ IsTransparentName(name) /\ c = transparent_index
    THEN 0 ELSE 1

\* lines 255-276: the image pixels, one per visited pixel
ImagePixels(name, pal, w, h) ==
    [k \in 1..(w * h) |->
        LET c == pal[VisitOrder(w, h)[k] + 1]
        IN  [c |-> c, alpha |-> Alpha(name, c)]]

\* lines 250-270: the list of the indices of the fullbright pixels
Fullbright(name, pal, w, h) ==
    SelectSeq(VisitOrder(w, h), LAMBDA idx : IsFullbright(name, pal[idx + 1]))

\* a mutant of generate_mask: the rows are not reversed
generate_mask_noflip(fg_indices, w, h) ==
    [p \in 1..(w * h) |->
        IF \E j \in 1..Len(fg_indices) : fg_indices[j] = p - 1
        THEN 1 ELSE 0]

\* lines 177-192: generate_mask, one value per pixel
generate_mask(fg_indices, w, h) ==
    LET at(i) == w * ((h - 1) - ((i - (i % w)) \div w)) + (i % w)
    IN  [p \in 1..(w * h) |->
            IF \E j \in 1..Len(fg_indices) : at(fg_indices[j]) = p - 1
            THEN 1 ELSE 0]

\* a mutant of MaskWanted: a mask also when every pixel is fullbright
MaskWanted_all(fullbright, w, h) ==
    Len(fullbright) > 0 /\ Len(fullbright) <= w * h

\* lines 286-289: no mask if all pixels are fullbright
MaskWanted(fullbright, w, h) ==
    Len(fullbright) > 0 /\ Len(fullbright) < w * h

\* lines 229-230: the entry as created, before any image is decoded; field
\* and pixels_ok record what the file held for the entry
TextureItem(name, entry) ==
    [name |-> name, width |-> tex_width, height |-> tex_height,
     has_image |-> FALSE, image |-> <<>>, has_mask |-> FALSE, mask |-> <<>>,
     is_emissive |-> FALSE, use_alpha |-> FALSE, fullbright |-> <<>>,
     field |-> entry.field, pixels_ok |-> entry.pixels_ok]

\* lines 247-293: the entry with its image, its flags and its mask
DecodedItem(name, entry) ==
    LET pal == PixelsPal(entry.pattern, tex_width * tex_height, hot)
        fullbright == Fullbright(name, pal, tex_width, tex_height)
        wanted == MaskWanted(fullbright, tex_width, tex_height)
    IN  [TextureItem(name, entry) EXCEPT
            !.has_image = TRUE,
            !.image = ImagePixels(name, pal, tex_width, tex_height),
            !.is_emissive = IsEmissiveName(name) \/ Len(fullbright) > 0,
            !.use_alpha = IsTransparentName(name),
            !.fullbright = fullbright,
            !.has_mask = wanted,
            !.mask = IF wanted
                     THEN generate_mask(fullbright, tex_width, tex_height)
                     ELSE <<>>]

\* the directory entries a pass may read; an entry whose pixels cannot be
\* read in full has no pattern
MiptexEntries ==
    [kind : {"read"}, field : NameFields, pixels_ok : {TRUE}, pattern : Patterns]
        \cup [kind : {"read"}, field : NameFields, pixels_ok : {FALSE}]

\* lines 196-212: the header and the directory are read
TInit ==
    /\ tpc = "loop" /\ terror = "none"
    /\ load_miptex \in BOOLEAN
    /\ num_miptex \in 0..MaxMiptex
    /\ tex_width \in 1..MaxDim /\ tex_height \in 1..MaxDim
    /\ hot \in HotIndices
    /\ miptex_id = 0
    /\ miptex = [kind |-> "none"]
    /\ name_bound = FALSE /\ miptex_name = <<>>
    /\ texture_data = <<>>

\* lines 215-227: the name field has no NUL byte and miptex_name was never
\* assigned; evaluating it at line 227 raises UnboundLocalError
NameUnbound ==
    /\ tpc = "loop" /\ miptex_id < num_miptex
    /\ \E entry \in MiptexEntries :
        /\ ~NameAfterLoop(entry.field, name_bound, miptex_name).bound
        /\ miptex' = entry
    /\ tpc' = "failed"
    /\ terror' = "UnboundLocalError"
    /\ UNCHANGED <<load_miptex, num_miptex, miptex_id, tex_width, tex_height,
                   hot, name_bound, miptex_name, texture_data>>

\* lines 215-235: only the basic texture information is saved
AppendBasic ==
    /\ tpc = "loop" /\ miptex_id < num_miptex
    /\ ~load_miptex
    /\ \E entry \in MiptexEntries :
        LET after == NameAfterLoop(entry.field, name_bound, miptex_name)
        IN  /\ after.bound
            /\ miptex' = entry
            /\ name_bound' = TRUE
            /\ miptex_name' = after.name
            /\ texture_data' = Append(texture_data, TextureItem(after.name, entry))
    /\ miptex_id' = miptex_id + 1
    /\ UNCHANGED <<tpc, terror, load_miptex, num_miptex, tex_width, tex_height,
                   hot>>

\* lines 215-245: the pixels cannot be read in full; an empty texture keeps
\* the ids in order
AppendPlaceholder ==
    /\ tpc = "loop" /\ miptex_id < num_miptex
    /\ load_miptex
    /\ \E entry \in MiptexEntries :
        LET after == NameAfterLoop(entry.field, name_bound, miptex_name)
        IN  /\ after.bound
            /\ ~entry.pixels_ok
            /\ miptex' = entry
            /\ name_bound' = TRUE
            /\ miptex_name' = after.name
            /\ texture_data' = Append(texture_data, TextureItem(after.name, entry))
    /\ miptex_id' = miptex_id + 1
    /\ UNCHANGED <<tpc, terror, load_miptex, num_miptex, tex_width, tex_height,
                   hot>>

\* lines 215-293: the pixels are decoded into an image, and a mask if wanted
DecodeTexture ==
    /\ tpc = "loop" /\ miptex_id < num_miptex
    /\ load_miptex
    /\ \E entry \in MiptexEntries :
        LET after == NameAfterLoop(entry.field, name_bound, miptex_name)
        IN  /\ after.bound
            /\ entry.pixels_ok
            /\ miptex' = entry
            /\ name_bound' = TRUE
            /\ miptex_name' = after.name
            /\ texture_data' = Append(texture_data, DecodedItem(after.name, entry))
    /\ miptex_id' = miptex_id + 1
    /\ UNCHANGED <<tpc, terror, load_miptex, num_miptex, tex_width, tex_height,
                   hot>>

\* line 295: return texture_data
ReturnTextures ==
    /\ tpc = "loop" /\ miptex_id = num_miptex
    /\ tpc' = "done"
    /\ UNCHANGED <<terror, load_miptex, num_miptex, miptex_id, tex_width,
                   tex_height, hot, miptex, name_bound, miptex_name,
                   texture_data>>

NextTex ==
    \/ NameUnbound /\ UNCHANGED <<hvars, gvars, evars, ivars>>
    \/ AppendBasic /\ UNCHANGED <<hvars, gvars, evars, ivars>>
    \/ AppendPlaceholder /\ UNCHANGED <<hvars, gvars, evars, ivars>>
    \/ DecodeTexture /\ UNCHANGED <<hvars, gvars, evars, ivars>>
    \/ ReturnTextures /\ UNCHANGED <<hvars, gvars, evars, ivars>>

InitTex == HIdle /\ GIdle /\ TInit /\ EIdle /\ IIdle

SpecTex == InitTex /\ [][NextTex]_vars

(***************************************************************************)
(* Claims about load_textures.                                             *)
(***************************************************************************)

\* the bytes of a name field before its first NUL byte; the whole field when
\* it holds no NUL byte
TrimAtNul(field) ==
    IF \E i \in 1..Len(field) : field[i] = 0
    THEN SubSeq(field, 1, FirstNul(field) - 1)
    ELSE field

\* C6: the name of every texture entry is the bytes of its own name field
\* before the first NUL byte, the whole field when there is none, and a field
\* with no NUL byte never makes load_textures fail.
C6_NameTrimmedAtNul ==
    /\ \A i \in 1..Len(texture_data) :
        texture_data[i].name = TrimAtNul(texture_data[i].field)
    /\ tpc = "failed" => \E i \in 1..NameLen : miptex.field[i] = 0

\* C7: load_textures does not fail at an entry whose pixels cannot be read in
\* full; the entry it appends for it has that entry's name and dimensions
\* and no image, and the list returned has one entry per directory entry.
C7_PlaceholderForUnreadablePixels ==
    /\ tpc = "failed" => miptex.pixels_ok
    /\ \A i \in 1..Len(texture_data) :
        ~texture_data[i].pixels_ok =>
            /\ texture_data[i].name = TrimAtNul(texture_data[i].field)
            /\ texture_data[i].width = tex_width
            /\ texture_data[i].height = tex_height
            /\ ~texture_data[i].has_image
    /\ tpc = "done" => Len(texture_data) = num_miptex

HasEmissivePrefix(name) ==
    \/ (Len(name) >= 1 /\ name[1] = 42)
    \/ (Len(name) >= 3 /\ name[1] = 115 /\ name[2] = 107 /\ name[3] = 121)

\* C8 as claimed: every entry returned, placeholders and entries without
\* image data included, has is_emissive set when a fullbright pixel was
\* recorded for it or its name starts with '*' or 'sky'.
C8_EmissiveForEveryEntry ==
    \A i \in 1..Len(texture_data) :
        (Len(texture_data[i].fullbright) > 0 \/ HasEmissivePrefix(texture_data[i].name))
            => texture_data[i].is_emissive

\* C8 as amended: every entry returned with decoded image data has
\* is_emissive set when a fullbright pixel was recorded for it or its name
\* starts with '*' or 'sky'; an entry returned as a placeholder or without
\* decoded image data has is_emissive false and no fullbright pixel recorded.
C8_EmissiveWhenDecoded ==
    \A i \in 1..Len(texture_data) :
        IF texture_data[i].has_image
        THEN (Len(texture_data[i].fullbright) > 0
                \/ HasEmissivePrefix(texture_data[i].name))
                    => texture_data[i].is_emissive
        ELSE ~texture_data[i].is_emissive /\ texture_data[i].fullbright = <<>>

\* a decoded texture with an ordinary name is emissive by a recorded
\* fullbright pixel, and a placeholder named "*lava" is not emissive
C8_Witness ==
    \E i, j \in 1..Len(texture_data) :
        /\ texture_data[i].has_image
        /\ ~HasEmissivePrefix(texture_data[i].name)
        /\ Len(texture_data[i].fullbright) > 0
        /\ texture_data[i].is_emissive
        /\ ~texture_data[j].has_image
        /\ texture_data[j].name = n_lava
        /\ ~texture_data[j].is_emissive

\* C9: a decoded texture has an emission mask exactly when the number of its
\* recorded fullbright pixels is greater than zero and less than
\* width*height; no fullbright pixel is recorded for a texture whose name
\* starts with '*' or 'sky' or is in the ignore-list, and it has no mask.
C9_MaskIffSomeButNotAll ==
    \A i \in 1..Len(texture_data) :
        LET t == texture_data[i]
        IN  t.has_image =>
                /\ t.has_mask = (Len(t.fullbright) > 0
                                    /\ Len(t.fullbright) < t.width * t.height)
                /\ t.has_mask => Len(t.mask) = t.width * t.height
                /\ (HasEmissivePrefix(t.name) \/ t.name \in ignored_texnames)
                        => (t.fullbright = <<>> /\ ~t.has_mask)

\* one decoded texture has a mask, some but not all of its pixels being
\* fullbright; another, named "sky1" and made of fullbright colours only,
\* has no fullbright pixel recorded and no mask
C9_Witness ==
    \E i, j \in 1..Len(texture_data) :
        /\ texture_data[i].has_image /\ texture_data[i].has_mask
        /\ Len(texture_data[i].fullbright) = 1
        /\ texture_data[i].width * texture_data[i].height > 1
        /\ texture_data[j].has_image /\ texture_data[j].name = n_sky1
        /\ \A k \in 1..Len(texture_data[j].image) :
                texture_data[j].image[k].c >= fullbright_index
        /\ ~texture_data[j].has_mask

(***************************************************************************)
(* get_entity_data (lines 300-333).  A line of the entity text is a        *)
(* sequence of characters; a run of characters that holds no quote and is  *)
(* not a single space is written as one element.                           *)
(***************************************************************************)

quote == "\""
start_char == "{"
end_char == "}"

l_open == <<start_char>>
l_close == <<end_char>>
l_blank == <<>>
l_classname == <<quote, "classname", quote, " ", quote, "info_null", quote>>
l_light == <<quote, "classname", quote, " ", quote, "light", quote>>
l_origin == <<quote, "origin", quote, " ", quote, "0 0 0", quote>>
\* "origin" ""
l_origin_empty == <<quote, "origin", quote, " ", quote, quote>>
\* origin"0 0 0
l_unquoted == <<"origin", quote, "0 0 0">>

LineSet ==
    {l_open, l_close, l_blank, l_classname, l_light, l_origin,
     l_origin_empty, l_unquoted}

EntityTexts == UNION {[1..n -> LineSet] : n \in 0..MaxLines}

\* str.startswith with a one-character prefix
StartsWithChar(line, c) == Len(line) > 0 /\ line[1] = c

FirstQuote(line) ==
    IF \E k \in 1..Len(line) : line[k] = quote
    THEN CHOOSE k \in 1..Len(line) :
            line[k] = quote /\ \A j \in 1..(k - 1) : line[j] # quote
    ELSE 0

\* line 326: lines[i].split('"')
RECURSIVE Split(_)
Split(line) ==
    IF FirstQuote(line) = 0
    THEN <<line>>
    ELSE <<SubSeq(line, 1, FirstQuote(line) - 1)>>
            \o Split(SubSeq(line, FirstQuote(line) + 1, Len(line)))

KeptSegment(seg) == seg # <<>> /\ seg # <<" ">>

\* line 326: kv = [s for s in lines[i].split('"') if s != '' and s != ' ']
KeyValue(line) == SelectSeq(Split(line), KeptSegment)

\* line 328: entity[kv[0]] = kv[1]
SetItem(ent, key, value) == {p \in ent : p[1] # key} \cup {<<key, value>>}

\* line 330: 'classname' in entity and 'origin' in entity
HasKey(ent, key) == \E p \in ent : p[1] = <<key>>

EInit ==
    /\ epc = "outer"
    /\ lines \in EntityTexts
    /\ num_lines = Len(lines)
    /\ i_line = 0
    /\ entity = {}
    /\ entities = <<>>

\* lines 320-321, 332: a line outside a record that does not open one
SkipLine ==
    /\ epc = "outer"
    /\ i_line < num_lines
    /\ ~StartsWithChar(lines[i_line + 1], start_char)
    /\ i_line' = i_line + 1
    /\ UNCHANGED <<epc, lines, num_lines, entity, entities>>

\* lines 321-323: a line that opens a record
OpenEntity ==
    /\ epc = "outer"
    /\ i_line < num_lines
    /\ StartsWithChar(lines[i_line + 1], start_char)
    /\ i_line' = i_line + 1
    /\ entity' = {}
    /\ epc' = "inner"
    /\ UNCHANGED <<lines, num_lines, entities>>

\* lines 324-329: one pass of the inner loop
ReadKeyValue ==
    /\ epc = "inner"
    /\ i_line < num_lines
    /\ ~StartsWithChar(lines[i_line + 1], end_char)
    /\ LET kv == KeyValue(lines[i_line + 1])
       IN  entity' = IF Len(kv) = 2
                     THEN SetItem(entity, kv[1], kv[2])
                     ELSE entity
    /\ i_line' = i_line + 1
    /\ UNCHANGED <<epc, lines, num_lines, entities>>

\* lines 324, 330-332: the inner loop ends, at a closing line or at the end
\* of the text
CloseEntity ==
    /\ epc = "inner"
    /\ ~(i_line < num_lines /\ ~StartsWithChar(lines[i_line + 1], end_char))
    /\ entities' = IF HasKey(entity, "classname") /\ HasKey(entity, "origin")
                   THEN Append(entities, entity)
                   ELSE entities
    /\ i_line' = i_line + 1
    /\ epc' = "outer"
    /\ UNCHANGED <<lines, num_lines, entity>>

\* lines 320, 334
ReturnEntities ==
    /\ epc = "outer"
    /\ i_line >= num_lines
    /\ epc' = "done"
    /\ UNCHANGED <<lines, num_lines, i_line, entity, entities>>

NextEnt ==
    \/ SkipLine /\ UNCHANGED <<hvars, gvars, tvars, ivars>>
    \/ OpenEntity /\ UNCHANGED <<hvars, gvars, tvars, ivars>>
    \/ ReadKeyValue /\ UNCHANGED <<hvars, gvars, tvars, ivars>>
    \/ CloseEntity /\ UNCHANGED <<hvars, gvars, tvars, ivars>>
    \/ ReturnEntities /\ UNCHANGED <<hvars, gvars, tvars, ivars>>

InitEnt == HIdle /\ GIdle /\ TIdle /\ EInit /\ IIdle

SpecEnt == InitEnt /\ [][NextEnt]_vars

(***************************************************************************)
(* Claims about get_entity_data.                                           *)
(***************************************************************************)

QuotePositions(line) == {k \in 1..Len(line) : line[k] = quote}

\* the position of the quote that closes the key of a line of the shape
\* "key" "value", 0 for a line of another shape
KeyEnd(line) ==
    IF \E a \in 2..Len(line) :
            /\ a + 2 < Len(line)
            /\ QuotePositions(line) = {1, a, a + 2, Len(line)}
            /\ line[a + 1] = " "
    THEN CHOOSE a \in 2..Len(line) :
            /\ a + 2 < Len(line)
            /\ QuotePositions(line) = {1, a, a + 2, Len(line)}
            /\ line[a + 1] = " "
    ELSE 0

WellFormed(line) == KeyEnd(line) # 0

KeyOf(line) == SubSeq(line, 2, KeyEnd(line) - 1)

ValueOf(line) == SubSeq(line, KeyEnd(line) + 3, Len(line) - 1)

\* the well-formed lines a..b of a text as a mapping, a later line replacing
\* an earlier one of the same key
RecordOf(text, a, b) ==
    {<<KeyOf(text[j]), ValueOf(text[j])>> : j \in
        {j \in a..b :
            /\ WellFormed(text[j])
            /\ \A k \in (j + 1)..b :
                WellFormed(text[k]) => KeyOf(text[k]) # KeyOf(text[j])}}

\* the retained brace-delimited records of a text from line k on; the end of
\* the text closes a record left open
RECURSIVE RetainedRecords(_, _)
RetainedRecords(text, k) ==
    IF k > Len(text) THEN <<>>
    ELSE IF ~StartsWithChar(text[k], start_char)
    THEN RetainedRecords(text, k + 1)
    ELSE LET closing == {j \in (k + 1)..Len(text) :
                            StartsWithChar(text[j], end_char)}
             c == IF closing = {} THEN Len(text) + 1
                  ELSE CHOOSE j \in closing : \A x \in closing : j <= x
             rec == RecordOf(text, k + 1, c - 1)
         IN  (IF HasKey(rec, "classname") /\ HasKey(rec, "origin")
              THEN <<rec>> ELSE <<>>)
                \o RetainedRecords(text, c + 1)

\* C10: get_entity_data returns, in file order, exactly the brace-delimited
\* records that have both a classname and an origin line, each with every
\* well-formed "key" "value" line of the record.
C10_RetainedRecords ==
    epc = "done" => entities = RetainedRecords(lines, 1)

(***************************************************************************)
(* The run of import_bsp as a whole, lines 494-735: the file handles of    *)
(* import_bsp, load_textures and get_entity_data, the objects created, and *)
(* the entity loop of lines 696-709.  The phases modelled in detail above  *)
(* are single steps here; a phase that can raise has a failing step.  An   *)
(* entity is its classname, a sequence of ASCII bytes; an object created   *)
(* for an entity carries the position of the entity in the list.           *)
(***************************************************************************)

\* lines 107-111
imported_entity_prefixes == {<<109, 111, 110, 115, 116, 101, 114, 95>>, <<105, 116, 101, 109, 95>>, <<119, 101, 97, 112, 111, 110, 95>>}

\* lines 113-116
camera_types == {<<105, 110, 102, 111, 95, 105, 110, 116, 101, 114, 109, 105, 115, 115, 105, 111, 110>>, <<105, 110, 102, 111, 95, 112, 108, 97, 121, 101, 114, 95, 115, 116, 97, 114, 116>>}

\* line 118
light_prefix == <<108, 105, 103, 104, 116>>

c_light == <<108, 105, 103, 104, 116>>
c_light_fluoro == <<108, 105, 103, 104, 116, 95, 102, 108, 117, 111, 114, 111>>
c_info_player_start == <<105, 110, 102, 111, 95, 112, 108, 97, 121, 101, 114, 95, 115, 116, 97, 114, 116>>
c_info_intermission == <<105, 110, 102, 111, 95, 105, 110, 116, 101, 114, 109, 105, 115, 115, 105, 111, 110>>
c_monster_army == <<109, 111, 110, 115, 116, 101, 114, 95, 97, 114, 109, 121>>
c_func_door == <<102, 117, 110, 99, 95, 100, 111, 111, 114>>

\* the classnames tried
ClassNames ==
    {c_light, c_light_fluoro, c_info_player_start, c_info_intermission,
     c_monster_army, c_func_door}

EntityLists == UNION {[1..n -> ClassNames] : n \in 0..MaxEntities}

FileLens == {0, size_BSPHeader - 1, size_BSPHeader, size_BSPHeader + 1}

OptionSets ==
    [create_materials : BOOLEAN, create_lights : BOOLEAN,
     create_cameras : BOOLEAN, create_entities : BOOLEAN,
     all_entities : BOOLEAN]

\* a mutant of HeaderReadable: any file that is not empty will do
HeaderReadable_nonempty(n) == n > 0

\* lines 499-500: struct.unpack raises struct.error unless file.read returned
\* the whole header
HeaderReadable(n) == n >= size_BSPHeader

\* a mutant of WithExit: the handle is left open
WithExit_leak(hs, owner) == hs

\* the exit of a with block: the function's handle is closed
WithExit(hs, owner) == hs \ {owner}

\* lines 135-139
is_imported_entity(classname) ==
    \E prefix \in imported_entity_prefixes : StartsWith(classname, prefix)

\* a mutant of IsLight: only the classname "light" itself
IsLight_exact(classname) == classname = light_prefix

\* line 700
IsLight(classname) == StartsWith(classname, light_prefix)

\* lines 700-709: the kind of object created for an entity, "NONE" if none
ObjectKind(classname, opts) ==
    IF IsLight(classname)
    THEN (IF opts.create_lights THEN "LIGHT" ELSE "NONE")
    ELSE IF opts.create_cameras /\ classname \in camera_types
    THEN "CAMERA"
    ELSE IF opts.all_entities
            \/ (opts.create_entities /\ is_imported_entity(classname))
    THEN "EMPTY"
    ELSE "NONE"

\* line 690
EntitiesWanted(opts) ==
    opts.create_entities \/ opts.create_cameras \/ opts.create_lights
        \/ opts.all_entities

IInit ==
    /\ ipc = "start" /\ ierror = "none"
    /\ file_len \in FileLens
    /\ handles = {} /\ opens = 0 /\ lumps_read = FALSE
    /\ images = 0 /\ materials = 0 /\ meshes = 0
    /\ options \in OptionSets
    /\ entity_list = <<>> /\ entity_id = 0
    /\ added_lights = <<>> /\ added_ents = <<>>
    /\ scene_camera = 0

\* line 498
OpenBsp ==
    /\ ipc = "start"
    /\ handles' = handles \cup {"import_bsp"}
    /\ opens' = opens + 1
    /\ ipc' = "header"
    /\ UNCHANGED <<ierror, file_len, lumps_read, images, materials, meshes,
                   options, entity_list, entity_id, added_lights, added_ents,
                   scene_camera>>

\* lines 499-518
UnpackHeader ==
    /\ ipc = "header"
    /\ HeaderReadable(file_len)
    /\ ipc' = "lumps"
    /\ UNCHANGED <<ierror, file_len, handles, opens, lumps_read, images,
                   materials, meshes, options, entity_list, entity_id,
                   added_lights, added_ents, scene_camera>>

\* lines 499-500: struct.error leaves the with block and import_bsp
UnpackHeaderFail ==
    /\ ipc = "header"
    /\ ~HeaderReadable(file_len)
    /\ ierror' = "struct.error"
    /\ handles' = WithExit(handles, "import_bsp")
    /\ ipc' = "failed"
    /\ UNCHANGED <<file_len, opens, lumps_read, images, materials, meshes,
                   options, entity_list, entity_id, added_lights, added_ents,
                   scene_camera>>

\* lines 521-536: the lumps are read and the with block ends
ReadLumpData ==
    /\ ipc = "lumps"
    /\ lumps_read' = TRUE
    /\ handles' = WithExit(handles, "import_bsp")
    /\ ipc' = "textures"
    /\ UNCHANGED <<ierror, file_len, opens, images, materials, meshes,
                   options, entity_list, entity_id, added_lights, added_ents,
                   scene_camera>>

\* lines 532, 535: struct.error for an edge-list or vertex lump whose size is
\* not a multiple of 4
ReadLumpDataFail ==
    /\ ipc = "lumps"
    /\ lumps_read' = TRUE
    /\ ierror' = "struct.error"
    /\ handles' = WithExit(handles, "import_bsp")
    /\ ipc' = "failed"
    /\ UNCHANGED <<file_len, opens, images, materials, meshes, options,
                   entity_list, entity_id, added_lights, added_ents,
                   scene_camera>>

\* lines 540, 196-212: load_textures opens the file again
OpenForTextures ==
    /\ ipc = "textures"
    /\ handles' = handles \cup {"load_textures"}
    /\ opens' = opens + 1
    /\ ipc' = "miptex"
    /\ UNCHANGED <<ierror, file_len, lumps_read, images, materials, meshes,
                   options, entity_list, entity_id, added_lights, added_ents,
                   scene_camera>>

\* lines 215-293: a texture is decoded and its image created (line 279)
DecodeImage ==
    /\ ipc = "miptex"
    /\ images < MaxMiptex
    /\ images' = images + 1
    /\ UNCHANGED <<ipc, ierror, file_len, handles, opens, lumps_read,
                   materials, meshes, options, entity_list, entity_id,
                   added_lights, added_ents, scene_camera>>

\* line 227: UnboundLocalError leaves the with block and import_bsp
LoadTexturesFail ==
    /\ ipc = "miptex"
    /\ ierror' = "UnboundLocalError"
    /\ handles' = WithExit(handles, "load_textures")
    /\ ipc' = "failed"
    /\ UNCHANGED <<file_len, opens, lumps_read, images, materials, meshes,
                   options, entity_list, entity_id, added_lights, added_ents,
                   scene_camera>>

\* line 295: load_textures returns and its with block ends
CloseTextures ==
    /\ ipc = "miptex"
    /\ handles' = WithExit(handles, "load_textures")
    /\ ipc' = "materials"
    /\ UNCHANGED <<ierror, file_len, opens, lumps_read, images, materials,
                   meshes, options, entity_list, entity_id, added_lights,
                   added_ents, scene_camera>>

\* lines 541-542: a material for every texture
CreateMaterials ==
    /\ ipc = "materials"
    /\ materials' = IF options.create_materials THEN MaxMiptex ELSE 0
    /\ ipc' = "models"
    /\ UNCHANGED <<ierror, file_len, handles, opens, lumps_read, images,
                   meshes, options, entity_list, entity_id, added_lights,
                   added_ents, scene_camera>>

\* lines 560-682
BuildMeshes ==
    /\ ipc = "models"
    /\ \E n \in 1..MaxModels : meshes' = n
    /\ ipc' = "entities"
    /\ UNCHANGED <<ierror, file_len, handles, opens, lumps_read, images,
                   materials, options, entity_list, entity_id, added_lights,
                   added_ents, scene_camera>>

\* line 619: struct.error for an edge index past the edge lump
BuildMeshesFail ==
    /\ ipc = "models"
    /\ \E n \in 1..MaxModels : meshes' = n
    /\ ierror' = "struct.error"
    /\ ipc' = "failed"
    /\ UNCHANGED <<file_len, handles, opens, lumps_read, images, materials,
                   options, entity_list, entity_id, added_lights, added_ents,
                   scene_camera>>

\* line 690: no entity option is set
SkipEntities ==
    /\ ipc = "entities"
    /\ ~EntitiesWanted(options)
    /\ ipc' = "done"
    /\ UNCHANGED <<ierror, file_len, handles, opens, lumps_read, images,
                   materials, meshes, options, entity_list, entity_id,
                   added_lights, added_ents, scene_camera>>

\* lines 693, 303-305: get_entity_data opens the file again
OpenForEntities ==
    /\ ipc = "entities"
    /\ EntitiesWanted(options)
    /\ handles' = handles \cup {"get_entity_data"}
    /\ opens' = opens + 1
    /\ ipc' = "entity_text"
    /\ UNCHANGED <<ierror, file_len, lumps_read, images, materials, meshes,
                   options, entity_list, entity_id, added_lights, added_ents,
                   scene_camera>>

\* lines 306-334, 693-695: get_entity_data returns the entities
CloseEntities ==
    /\ ipc = "entity_text"
    /\ handles' = WithExit(handles, "get_entity_data")
    /\ entity_list' \in EntityLists
    /\ entity_id' = 0
    /\ ipc' = "classify"
    /\ UNCHANGED <<ierror, file_len, opens, lumps_read, images, materials,
                   meshes, options, added_lights, added_ents, scene_camera>>

\* lines 696-709, with light_add, camera_add (lines 413-414) and entity_add
ClassifyEntity ==
    /\ ipc = "classify"
    /\ entity_id < Len(entity_list)
    /\ LET classname == entity_list[entity_id + 1]
           kind == ObjectKind(classname, options)
           obj == [type |-> kind, name |-> classname, entity |-> entity_id + 1]
       IN  /\ added_lights' = IF kind = "LIGHT"
                              THEN Append(added_lights, obj)
                              ELSE added_lights
           /\ added_ents' = IF kind \in {"CAMERA", "EMPTY"}
                            THEN Append(added_ents, obj)
                            ELSE added_ents
           /\ scene_camera' = IF kind = "CAMERA"
                                    /\ classname = c_info_player_start
                              THEN entity_id + 1
                              ELSE scene_camera
    /\ entity_id' = entity_id + 1
    /\ UNCHANGED <<ipc, ierror, file_len, handles, opens, lumps_read, images,
                   materials, meshes, options, entity_list>>

\* lines 711-735
FinishImport ==
    /\ ipc = "classify"
    /\ entity_id >= Len(entity_list)
    /\ ipc' = "done"
    /\ UNCHANGED <<ierror, file_len, handles, opens, lumps_read, images,
                   materials, meshes, options, entity_list, entity_id,
                   added_lights, added_ents, scene_camera>>

NextImport ==
    \/ OpenBsp /\ UNCHANGED <<hvars, gvars, tvars, evars>>
    \/ UnpackHeader /\ UNCHANGED <<hvars, gvars, tvars, evars>>
    \/ UnpackHeaderFail /\ UNCHANGED <<hvars, gvars, tvars, evars>>
    \/ ReadLumpData /\ UNCHANGED <<hvars, gvars, tvars, evars>>
    \/ ReadLumpDataFail /\ UNCHANGED <<hvars, gvars, tvars, evars>>
    \/ OpenForTextures /\ UNCHANGED <<hvars, gvars, tvars, evars>>
    \/ DecodeImage /\ UNCHANGED <<hvars, gvars, tvars, evars>>
    \/ LoadTexturesFail /\ UNCHANGED <<hvars, gvars, tvars, evars>>
    \/ CloseTextures /\ UNCHANGED <<hvars, gvars, tvars, evars>>
    \/ CreateMaterials /\ UNCHANGED <<hvars, gvars, tvars, evars>>
    \/ BuildMeshes /\ UNCHANGED <<hvars, gvars, tvars, evars>>
    \/ BuildMeshesFail /\ UNCHANGED <<hvars, gvars, tvars, evars>>
    \/ SkipEntities /\ UNCHANGED <<hvars, gvars, tvars, evars>>
    \/ OpenForEntities /\ UNCHANGED <<hvars, gvars, tvars, evars>>
    \/ CloseEntities /\ UNCHANGED <<hvars, gvars, tvars, evars>>
    \/ ClassifyEntity /\ UNCHANGED <<hvars, gvars, tvars, evars>>
    \/ FinishImport /\ UNCHANGED <<hvars, gvars, tvars, evars>>

InitImport == HIdle /\ GIdle /\ TIdle /\ EIdle /\ IInit

SpecImport == InitImport /\ [][NextImport]_vars

(***************************************************************************)
(* Claims about the run of import_bsp.                                     *)
(***************************************************************************)

\* the objects of a list that were created for entity k
ObjectsFor(objs, k) == {j \in 1..Len(objs) : objs[j].entity = k}

\* the classname starts with the five bytes of "light"
NamedLight(classname) ==
    /\ Len(classname) >= 5
    /\ classname[1] = 108 /\ classname[2] = 105 /\ classname[3] = 103
    /\ classname[4] = 104 /\ classname[5] = 116

\* C11: every entity has at most one object, which is a light, a camera or
\* a generic object; an entity whose classname starts with "light" has no
\* camera and no generic object whatever the options are, and has a light
\* exactly when create_lights is set.
C11_OneGroupLightsApart ==
    /\ \A j \in 1..Len(added_lights) : added_lights[j].type = "LIGHT"
    /\ \A j \in 1..Len(added_ents) : added_ents[j].type \in {"CAMERA", "EMPTY"}
    /\ \A k \in 1..entity_id :
        /\ Cardinality(ObjectsFor(added_lights, k))
                + Cardinality(ObjectsFor(added_ents, k)) <= 1
        /\ NamedLight(entity_list[k]) =>
            /\ ObjectsFor(added_ents, k) = {}
            /\ (ObjectsFor(added_lights, k) # {}) = options.create_lights

\* with all_entities and create_lights set, "light_fluoro" became a light and
\* "func_door" a generic object; nothing else was created
C11_Witness ==
    /\ ipc = "done"
    /\ options.all_entities /\ options.create_lights
    /\ entity_list = <<c_light_fluoro, c_func_door>>
    /\ Len(added_lights) = 1 /\ added_lights[1].entity = 1
    /\ Len(added_ents) = 1 /\ added_ents[1].entity = 2
    /\ added_ents[1].type = "EMPTY"

\* the positions of the "info_player_start" entities
PlayerStarts == {k \in 1..Len(entity_list) : entity_list[k] = c_info_player_start}

\* C12: when cameras are created, the active scene camera after the import is
\* the camera of the first "info_player_start" entity.
C12_FirstPlayerStartIsActive ==
    (ipc = "done" /\ options.create_cameras /\ PlayerStarts # {}) =>
        /\ scene_camera \in PlayerStarts
        /\ \A k \in PlayerStarts : scene_camera <= k

C16_ShortFileFails ==
    file_len < 31 * 4 =>
        /\ ipc \in {"start", "header", "failed"}
        /\ ipc = "failed" => (ierror = "struct.error" /\ handles = {})
        /\ ~lumps_read
        /\ images = 0 /\ materials = 0 /\ meshes = 0
        /\ added_lights = <<>> /\ added_ents = <<>>

\* a file one byte short of the header has made import_bsp fail
C16_Witness ==
    /\ file_len = 31 * 4 - 1
    /\ ipc = "failed" /\ ierror = "struct.error"
    /\ opens = 1 /\ ~lumps_read

(***************************************************************************)
(* Further claims about the model / face loop.                             *)
(***************************************************************************)

\* a vertex loop no polygon can be made of: fewer than three vertices, a
\* vertex met twice, or the vertices of a polygon the mesh already has
LoopRejected(loop, faces) ==
    \/ Len(loop) < 3
    \/ \E a, b \in 1..Len(loop) : a < b /\ loop[a] = loop[b]
    \/ \E k \in 1..Len(faces) :
        {faces[k].verts[j] : j \in 1..Len(faces[k].verts)}
            = {loop[j] : j \in 1..Len(loop)}

\* C14: a face whose polygon cannot be constructed adds one to the model's
\* duplicate-face counter and no polygon, and the loop goes on to the next
\* face; every face of the model has been processed when the model ends, and
\* the counter is then the number of processed faces that neither were
\* skipped nor gave a polygon.
C14_FailedFaceCounted ==
    /\ [][(gpc = "polygon" /\ LoopRejected(face_vertices, bmFaces)) =>
            /\ duplicateFaces' = duplicateFaces + 1
            /\ bmFaces' = bmFaces
            /\ face'.kind = "failed"
            /\ f' = f + 1 /\ face_num' = face_num /\ m' = m
            /\ gpc' = "faces"]_vars
    /\ [](gpc = "faces" =>
            /\ duplicateFaces + Len(bmFaces) <= f
            /\ ~remove_hidden => duplicateFaces + Len(bmFaces) = f)
    /\ []((gpc = "models" /\ m > 0) =>
            /\ f = face_num
            /\ ~remove_hidden => duplicateFaces + Len(bmFaces) = face_num)

\* a face failed and the face after it gave a polygon
C14_Witness ==
    /\ gpc = "faces" /\ f = 2
    /\ duplicateFaces = 1
    /\ Len(bmFaces) = 1
    /\ face.kind = "built"

\* C15: every processed model gets a mesh object, and when import_bsp has
\* finished the mesh object of a model is left exactly when the model has
\* at least one polygon.
C15_MeshIffPolygons ==
    /\ gpc = "models" =>
        /\ Len(added_objects) = m
        /\ m > 0 => added_objects[m].polygons = Len(bmFaces)
    /\ gpc = "done" =>
        /\ Len(added_objects) = end_model
        /\ \A k \in 0..(end_model - 1) :
            /\ added_objects[k + 1].model = k
            /\ (k \in scene_meshes) = (added_objects[k + 1].polygons > 0)
        /\ scene_meshes \subseteq 0..(end_model - 1)

\* of two models, the first is left with its polygon and the second, which
\* had a face but no polygon, is deleted
C15_Witness ==
    /\ gpc = "done"
    /\ Len(added_objects) = 2
    /\ scene_meshes = {0}
    /\ added_objects[2].polygons = 0
    /\ duplicateFaces = 1

(***************************************************************************)
(* A further claim about load_textures.                                    *)
(***************************************************************************)

\* the position, from 1, of the pixel of row h-1-floor(i/w) and column i mod w
OutputPos(i, w, h) == ((h - 1) - (i \div w)) * w + (i % w) + 1

\* C17: the mask of a texture has a foreground pixel exactly at the output
\* positions (row h-1-floor(i/w), column i mod w) of its recorded fullbright
\* file pixels i, which are the positions at which the image holds the
\* fullbright colours; the image of the texture decoded last holds the colour
\* of every file pixel i at that position.
C17_MaskFlippedAsImage ==
    /\ \A n \in 1..Len(texture_data) :
        LET t == texture_data[n]
            w == t.width
            h == t.height
        IN  t.has_mask =>
                /\ Len(t.mask) = w * h /\ Len(t.image) = w * h
                /\ \A p \in 1..(w * h) :
                    /\ (t.mask[p] = 1) =
                        (\E j \in 1..Len(t.fullbright) :
                            OutputPos(t.fullbright[j], w, h) = p)
                    /\ (t.mask[p] = 1) =
                        (/\ t.image[p].c >= fullbright_index
                         /\ ~(t.use_alpha /\ t.image[p].c = transparent_index))
    /\ (tpc = "loop" /\ Len(texture_data) > 0
            /\ texture_data[Len(texture_data)].has_image) =>
        LET t == texture_data[Len(texture_data)]
            n == t.width * t.height
        IN  \A i \in 0..(n - 1) :
                t.image[OutputPos(i, t.width, t.height)].c
                    = PixelsPal(miptex.pattern, n, hot)[i + 1]

\* a texture of two rows and two columns whose first file pixel is the only
\* fullbright one: the mask has its foreground at the first pixel of the
\* second row, where the image has the fullbright colour
C17_Witness ==
    \E n \in 1..Len(texture_data) :
        /\ texture_data[n].has_mask
        /\ texture_data[n].width = 2 /\ texture_data[n].height = 2
        /\ texture_data[n].fullbright = <<0>>
        /\ texture_data[n].mask = <<0, 0, 1, 0>>
        /\ texture_data[n].image[3].c >= fullbright_index

=============================================================================
